---------------------------- MODULE Spec2Model ----------------------------
(***************************************************************************)
(* A model of the CUDA kernels of src/cuda/kernels:                        *)
(*                                                                         *)
(*   debayer16_to_xyz      (debayer_rggb_bilinear.cu, lines 1-122)         *)
(*   debayer16_to_xyz      (the second definition in the same file,        *)
(*                          lines 123-242; called debayer16_to_xyz_v2)     *)
(*   apply_color_pipeline  (color_pipeline.cu)                             *)
(*                                                                         *)
(* A kernel launch is a set of work units, one per thread coordinate       *)
(* (x, y).  A unit evaluates the bounds guard, loads its samples and       *)
(* computes its three output components, then performs its three stores    *)
(* one at a time.  Units of one launch interleave freely.                  *)
(*                                                                         *)
(* NUMBERS.  The kernels compute in float.  The model computes the same    *)
(* expressions in exact arithmetic on integers:                            *)
(*   - a normalised sample is held as a multiple of 1/|range|, where       *)
(*     range = white_level - black_level;                                  *)
(*   - a reconstructed channel, a camera RGB or an XYZ value is held as a  *)
(*     multiple of 1/(4*|range|) (a "quarter unit"), so that the averages  *)
(*     of two and of four samples stay integers;                           *)
(*   - an sRGB value is held as a multiple of 1/(10^7 * 4*|range|), the    *)
(*     literals 3.2404542f ... being held as the integers 32404542 ...;    *)
(*     after the exposure factor 3.5 (held as 35) the unit is              *)
(*     1/(10^8 * 4*|range|).  These numbers exceed 32 bits and are held as *)
(*     two limbs <<h, l>> = h*Base + l.                                    *)
(*                                                                         *)
(* INDICES.  The kernels compute buffer indices in C int.  Signed overflow *)
(* is undefined behaviour; the variable ovf holds what the build makes of  *)
(* it: "wrap" (32-bit two's-complement arithmetic, the index register      *)
(* sign-extended when it is added to the pointer) or "exact" (the          *)
(* compiler relies on the absence of overflow and addresses with 64-bit    *)
(* arithmetic).  An index into a 3-component buffer is held as the pair    *)
(* <<index \div 3, index % 3>>, since 3*width*height may exceed 32 bits.   *)
(***************************************************************************)
EXTENDS Integers, Sequences, FiniteSets, TLC

---------------------------------------------------------------------------
(* C int arithmetic *)

INT_MAX == 2147483647

INT_MIN == -INT_MAX - 1

\* a + b of two ints reduced modulo 2^32 into [INT_MIN, INT_MAX], computed
\* without leaving that interval.
WrapAdd(a, b) ==
    IF a > 0 /\ b > 0 /\ a > INT_MAX - b
        THEN (a - INT_MAX - 1) + (b - INT_MAX - 1)
    ELSE IF a < 0 /\ b < 0 /\ a < INT_MIN - b
        THEN (a + INT_MAX + 1) + (b + INT_MAX + 1)
    ELSE a + b

\* a * b modulo 2^32, for b >= 0, by doubling.
RECURSIVE WrapMul(_, _)
WrapMul(a, b) ==
    IF b = 0 THEN 0
    ELSE LET h == WrapMul(a, b \div 2)
             d == WrapAdd(h, h)
         IN  IF b % 2 = 1 THEN WrapAdd(d, a) ELSE d

---------------------------------------------------------------------------
(* float arithmetic, exact *)

Abs(a) == IF a < 0 THEN -a ELSE a

Sgn(a) == IF a < 0 THEN -1 ELSE IF a > 0 THEN 1 ELSE 0

fmaxf(a, b) == IF a < b THEN b ELSE a

fminf(a, b) == IF b < a THEN b ELSE a

\* __fmaf_rn(a, b, c) = a*b + c with one rounding; exact here.
fmaf_rn(a, b, c) == a * b + c

\* Two-limb numbers <<h, l>> standing for h*Base + l, 0 <= l < Base.
Base == 10000

Limbs(h, l) == <<h + (l \div Base), l % Base>>

\* c * x for a literal c (|c| < 2^31) and a small integer x.
WMul(c, x) == Limbs((c \div Base) * x, (c % Base) * x)

WAdd(a, b) == Limbs(a[1] + b[1], a[2] + b[2])

WLess(a, b) == a[1] < b[1] \/ (a[1] = b[1] /\ a[2] < b[2])

\* __fmaf_rn(c, x, acc) on two-limb numbers.
fmaf_rn_w(c, x, acc) == WAdd(WMul(c, x), acc)

\* acc * k for a small integer k.
WScale(a, k) == Limbs(a[1] * k, a[2] * k)

fmaxf_w(a, b) == IF WLess(a, b) THEN b ELSE a

fminf_w(a, b) == IF WLess(b, a) THEN b ELSE a


\* 1.0f and 0.0f in the unit of the stored output, 1/(10^8 * one).
F1(one) == WMul(100000000, one)

F0 == <<0, 0>>

WSub(a, b) == Limbs(a[1] - b[1], a[2] - b[2])

\* A value in units of 1/|range| in quarter units: v * 1.0f.
Quarters(v) == 4 * v

---------------------------------------------------------------------------
(* The launch: image, parameters and the build *)

VARIABLES
    width, height,              \* int width, int height
    black_level, white_level,   \* int black_level, int white_level
    wb,                         \* <<wb_r, wb_g, wb_b>>
    cam_to_xyz,                 \* the 3x4 matrix, row-major, 12 entries
    in,                         \* the Bayer mosaic: index -> uint16
    rgb_in,                     \* the debayered input: <<pixel, c>> -> uint16
    ovf,                        \* what the build makes of signed overflow
    launched,                   \* the work units followed: <<kernel, <<x, y>>>>
    pc,                         \* unit -> where it stands
    regs,                       \* unit -> its locals once computed
    out,                        \* kernel -> its output buffer
    reads,                      \* the loads performed
    writes                      \* the stores performed

vars == <<width, height, black_level, white_level, wb, cam_to_xyz, in,
          rgb_in, ovf, launched, pc, regs, out, reads, writes>>

\* int * int and int + int as the build evaluates them.
IntMul(a, b) == IF ovf = "wrap" THEN WrapMul(a, b) ELSE a * b

IntAdd(a, b) == IF ovf = "wrap" THEN WrapAdd(a, b) ELSE a + b

\* The element idx + k of a float or uint16 triple buffer, idx = n * 3,
\* as <<element \div 3, element % 3>>.
Idx3(n, k) ==
    IF ovf = "wrap"
        THEN LET t == WrapAdd(WrapMul(n, 3), k) IN <<t \div 3, t % 3>>
        ELSE <<n, k>>

\* #define PIX(in, x, y, w) in[(x) + (y) * (w)]: the index.
PIX_index(x, y, w) == IntAdd(x, IntMul(y, w))

PIX(in_view, x, y, w) == in_view[PIX_index(x, y, w)]

---------------------------------------------------------------------------
(* debayer_rggb_bilinear.cu, first definition (lines 1-122) *)

\* normalize_pixel without its fmaxf.
normalize_pixel_unclamped(val, black, inv_range) ==
    (val - black) * Sgn(inv_range)

\* inv_range is held as the integer range whose reciprocal it is; the
\* result is in units of 1/|range|.
normalize_pixel(val, black, inv_range) ==
    LET v == val - black
    IN  fmaxf(v * Sgn(inv_range), 0)

RECURSIVE SumNorm(_, _, _, _, _)
SumNorm(in_view, at, w, black, inv_range) ==
    IF at = <<>> THEN 0
    ELSE normalize_pixel(PIX(in_view, Head(at)[1], Head(at)[2], w), black, inv_range)
         + SumNorm(in_view, Tail(at), w, black, inv_range)

\* get_red with the tests of its two-sample branches exchanged.
get_red_taps_exchanged(x, y) ==
    LET x_odd == x % 2 = 1
        y_odd == y % 2 = 1
    IN  IF ~x_odd /\ ~y_odd THEN
            [branch |-> "direct", at |-> << <<x, y>> >>, times |-> 4]
        ELSE IF ~x_odd /\ y_odd THEN
            [branch |-> "horizontal",
             at |-> << <<x - 1, y>>, <<x + 1, y>> >>, times |-> 2]
        ELSE IF x_odd /\ ~y_odd THEN
            [branch |-> "vertical",
             at |-> << <<x, y - 1>>, <<x, y + 1>> >>, times |-> 2]
        ELSE
            [branch |-> "diagonal",
             at |-> << <<x - 1, y - 1>>, <<x + 1, y - 1>>,
                       <<x - 1, y + 1>>, <<x + 1, y + 1>> >>, times |-> 1]

\* The branch get_red takes at (x, y): the samples it reads, in order, and
\* the factor applied to their sum in quarters (1.0f = 4, 0.5f = 2,
\* 0.25f = 1).
get_red_taps(x, y) ==
    LET x_odd == x % 2 = 1
        y_odd == y % 2 = 1
    IN  IF ~x_odd /\ ~y_odd THEN
            [branch |-> "direct", at |-> << <<x, y>> >>, times |-> 4]
        ELSE IF x_odd /\ ~y_odd THEN
            [branch |-> "horizontal",
             at |-> << <<x - 1, y>>, <<x + 1, y>> >>, times |-> 2]
        ELSE IF ~x_odd /\ y_odd THEN
            [branch |-> "vertical",
             at |-> << <<x, y - 1>>, <<x, y + 1>> >>, times |-> 2]
        ELSE
            [branch |-> "diagonal",
             at |-> << <<x - 1, y - 1>>, <<x + 1, y - 1>>,
                       <<x - 1, y + 1>>, <<x + 1, y + 1>> >>, times |-> 1]

get_red(in_view, x, y, w, black, inv_range) ==
    LET t == get_red_taps(x, y)
    IN  SumNorm(in_view, t.at, w, black, inv_range) * t.times

get_green_taps(x, y) ==
    IF (x + y) % 2 = 1 THEN
        [branch |-> "direct", at |-> << <<x, y>> >>, times |-> 4]
    ELSE
        [branch |-> "orthogonal",
         at |-> << <<x - 1, y>>, <<x + 1, y>>,
                   <<x, y - 1>>, <<x, y + 1>> >>, times |-> 1]

get_green(in_view, x, y, w, black, inv_range) ==
    LET t == get_green_taps(x, y)
    IN  SumNorm(in_view, t.at, w, black, inv_range) * t.times

get_blue_taps(x, y) ==
    LET x_odd == x % 2 = 1
        y_odd == y % 2 = 1
    IN  IF x_odd /\ y_odd THEN
            [branch |-> "direct", at |-> << <<x, y>> >>, times |-> 4]
        ELSE IF ~x_odd /\ y_odd THEN
            [branch |-> "horizontal",
             at |-> << <<x - 1, y>>, <<x + 1, y>> >>, times |-> 2]
        ELSE IF x_odd /\ ~y_odd THEN
            [branch |-> "vertical",
             at |-> << <<x, y - 1>>, <<x, y + 1>> >>, times |-> 2]
        ELSE
            [branch |-> "diagonal",
             at |-> << <<x - 1, y - 1>>, <<x + 1, y - 1>>,
                       <<x - 1, y + 1>>, <<x + 1, y + 1>> >>, times |-> 1]

get_blue(in_view, x, y, w, black, inv_range) ==
    LET t == get_blue_taps(x, y)
    IN  SumNorm(in_view, t.at, w, black, inv_range) * t.times

\* The locals of a unit that returned at the guard.
Returned == [ret |-> TRUE, norm |-> <<0, 0, 0>>, cam |-> <<0, 0, 0>>,
             n |-> 0, lin |-> <<F0, F0, F0>>, srgb |-> <<F0, F0, F0>>]

\* The locals of a unit that reached its stores: its channels before and
\* after white balance, y * width + x, from which idx is computed, srgb_r,
\* srgb_g, srgb_b as computed (lin) and the three values it stores (srgb).
Results(norm, cam, n, lin, srgb) ==
    [ret |-> FALSE, norm |-> norm, cam |-> cam, n |-> n, lin |-> lin,
     srgb |-> srgb]

\* Lines 93-94: the guard.
debayer16_to_xyz_guard(w, h, x, y) ==
    x < 1 \/ x >= w - 1 \/ y < 1 \/ y >= h - 1

\* Lines 106-108: <<xyz_x, xyz_y, xyz_z>>.
debayer16_to_xyz_matrix(M, cam_r, cam_g, cam_b, one) ==
    <<fmaf_rn(M[1], cam_r, fmaf_rn(M[2], cam_g, fmaf_rn(M[3], cam_b, M[4] * one))),
      fmaf_rn(M[5], cam_r, fmaf_rn(M[6], cam_g, fmaf_rn(M[7], cam_b, M[8] * one))),
      fmaf_rn(M[9], cam_r, fmaf_rn(M[10], cam_g, fmaf_rn(M[11], cam_b, M[12] * one)))>>

\* Lines 111-115: <<srgb_r, srgb_g, srgb_b>>, exposure = 3.5f.
debayer16_to_xyz_srgb(xyz_x, xyz_y, xyz_z, exposure) ==
    <<WScale(fmaf_rn_w(32404542, xyz_x,
                 fmaf_rn_w(-15371385, xyz_y, WMul(-4985314, xyz_z))), exposure),
      WScale(fmaf_rn_w(-9692660, xyz_x,
                 fmaf_rn_w(18760108, xyz_y, WMul(415560, xyz_z))), exposure),
      WScale(fmaf_rn_w(556434, xyz_x,
                 fmaf_rn_w(-2040259, xyz_y, WMul(10572252, xyz_z))), exposure)>>

\* The stores without fminf(fmaxf(...)).
debayer16_to_xyz_unclamped(srgb, one) == srgb

\* Lines 119-121: the values stored.
debayer16_to_xyz_clamp(srgb, one) ==
    <<fminf_w(fmaxf_w(srgb[1], F0), F1(one)),
      fminf_w(fmaxf_w(srgb[2], F0), F1(one)),
      fminf_w(fmaxf_w(srgb[3], F0), F1(one))>>

\* The unit's results with its three stores.
debayer16_to_xyz_stores(norm, cam, n, srgb, one) ==
    Results(norm, cam, n, srgb, debayer16_to_xyz_clamp(srgb, one))

\* Lines 100-121, from the reconstructed channels on.
debayer16_to_xyz_colour(red, green, blue, wb_r, wb_g, wb_b, M, one, n) ==
    LET cam_r == red * wb_r
        cam_g == green * wb_g
        cam_b == blue * wb_b
        xyz   == debayer16_to_xyz_matrix(M, cam_r, cam_g, cam_b, one)
    IN  debayer16_to_xyz_stores(<<red, green, blue>>, <<cam_r, cam_g, cam_b>>, n,
                debayer16_to_xyz_srgb(xyz[1], xyz[2], xyz[3], 35), one)

\* The kernel body for thread coordinate (x, y), up to its stores.
debayer16_to_xyz(in_view, w, h, wb_r, wb_g, wb_b, black, white, M, x, y) ==
    IF debayer16_to_xyz_guard(w, h, x, y) THEN Returned
    ELSE debayer16_to_xyz_colour(
             get_red(in_view, x, y, w, black, white - black),
             get_green(in_view, x, y, w, black, white - black),
             get_blue(in_view, x, y, w, black, white - black),
             wb_r, wb_g, wb_b, M, 4 * Abs(white - black),
             IntAdd(IntMul(y, w), x))

---------------------------------------------------------------------------
(* debayer_rggb_bilinear.cu, second definition (lines 123-242) *)

\* The lambda normalize of get_red, get_green and get_blue; range is
\* (float)(white_level - black_level); the result is in units of 1/|range|.
normalize_v2(val, black, range) ==
    LET v0 == val - black
        v  == IF v0 < 0 THEN 0 ELSE v0
    IN  v * Sgn(range)

RECURSIVE SumNorm_v2(_, _, _, _, _)
SumNorm_v2(in_view, at, w, black, range) ==
    IF at = <<>> THEN 0
    ELSE normalize_v2(PIX(in_view, Head(at)[1], Head(at)[2], w), black, range)
         + SumNorm_v2(in_view, Tail(at), w, black, range)

\* The branch taken, the samples read, and the divisor of their sum.
get_red_v2_taps(x, y) ==
    IF x % 2 = 0 /\ y % 2 = 0 THEN
        [branch |-> "direct", at |-> << <<x, y>> >>, div |-> 1]
    ELSE IF x % 2 = 1 /\ y % 2 = 0 THEN
        [branch |-> "horizontal",
         at |-> << <<x - 1, y>>, <<x + 1, y>> >>, div |-> 2]
    ELSE IF x % 2 = 0 /\ y % 2 = 1 THEN
        [branch |-> "vertical",
         at |-> << <<x, y - 1>>, <<x, y + 1>> >>, div |-> 2]
    ELSE
        [branch |-> "diagonal",
         at |-> << <<x - 1, y - 1>>, <<x + 1, y - 1>>,
                   <<x - 1, y + 1>>, <<x + 1, y + 1>> >>, div |-> 4]

\* sum / d in quarter units, d one of 1, 2.0f, 4.0f.
DivQ(sum, d) == sum * (4 \div d)

get_red_v2(in_view, x, y, w, black, range) ==
    LET t == get_red_v2_taps(x, y)
    IN  DivQ(SumNorm_v2(in_view, t.at, w, black, range), t.div)

\* get_green taking a green site for the other sites and conversely.
get_green_v2_taps_inverted(x, y) ==
    IF (x + y) % 2 = 0 THEN
        [branch |-> "direct", at |-> << <<x, y>> >>, div |-> 1]
    ELSE
        [branch |-> "orthogonal",
         at |-> << <<x - 1, y>>, <<x + 1, y>>,
                   <<x, y - 1>>, <<x, y + 1>> >>, div |-> 4]

get_green_v2_taps(x, y) ==
    IF (x + y) % 2 = 1 THEN
        [branch |-> "direct", at |-> << <<x, y>> >>, div |-> 1]
    ELSE
        [branch |-> "orthogonal",
         at |-> << <<x - 1, y>>, <<x + 1, y>>,
                   <<x, y - 1>>, <<x, y + 1>> >>, div |-> 4]

get_green_v2(in_view, x, y, w, black, range) ==
    LET t == get_green_v2_taps(x, y)
    IN  DivQ(SumNorm_v2(in_view, t.at, w, black, range), t.div)

get_blue_v2_taps(x, y) ==
    IF x % 2 = 1 /\ y % 2 = 1 THEN
        [branch |-> "direct", at |-> << <<x, y>> >>, div |-> 1]
    ELSE IF x % 2 = 0 /\ y % 2 = 1 THEN
        [branch |-> "horizontal",
         at |-> << <<x - 1, y>>, <<x + 1, y>> >>, div |-> 2]
    ELSE IF x % 2 = 1 /\ y % 2 = 0 THEN
        [branch |-> "vertical",
         at |-> << <<x, y - 1>>, <<x, y + 1>> >>, div |-> 2]
    ELSE
        [branch |-> "diagonal",
         at |-> << <<x - 1, y - 1>>, <<x + 1, y - 1>>,
                   <<x - 1, y + 1>>, <<x + 1, y + 1>> >>, div |-> 4]

get_blue_v2(in_view, x, y, w, black, range) ==
    LET t == get_blue_v2_taps(x, y)
    IN  DivQ(SumNorm_v2(in_view, t.at, w, black, range), t.div)

\* Lines 210-211: the guard.
debayer16_to_xyz_v2_guard(w, h, x, y) ==
    x < 1 \/ x >= w - 1 \/ y < 1 \/ y >= h - 1

\* Lines 221-223: <<xyz_x, xyz_y, xyz_z>>.
debayer16_to_xyz_v2_matrix(M, cam_r, cam_g, cam_b, one) ==
    <<M[1] * cam_r + M[2] * cam_g + M[3] * cam_b + M[4] * one,
      M[5] * cam_r + M[6] * cam_g + M[7] * cam_b + M[8] * one,
      M[9] * cam_r + M[10] * cam_g + M[11] * cam_b + M[12] * one>>

\* Lines 227-235: <<srgb_r, srgb_g, srgb_b>> after srgb_r *= exposure ...
debayer16_to_xyz_v2_srgb(xyz_x, xyz_y, xyz_z, exposure) ==
    <<WScale(WSub(WSub(WMul(32404542, xyz_x), WMul(15371385, xyz_y)),
                  WMul(4985314, xyz_z)), exposure),
      WScale(WAdd(WAdd(WMul(-9692660, xyz_x), WMul(18760108, xyz_y)),
                  WMul(415560, xyz_z)), exposure),
      WScale(WAdd(WSub(WMul(556434, xyz_x), WMul(2040259, xyz_y)),
                  WMul(10572252, xyz_z)), exposure)>>

\* Lines 239-241: the values stored.
debayer16_to_xyz_v2_clamp(srgb, one) ==
    <<fminf_w(fmaxf_w(srgb[1], F0), F1(one)),
      fminf_w(fmaxf_w(srgb[2], F0), F1(one)),
      fminf_w(fmaxf_w(srgb[3], F0), F1(one))>>

\* The unit's results with its three stores.
debayer16_to_xyz_v2_stores(norm, cam, n, srgb, one) ==
    Results(norm, cam, n, srgb, debayer16_to_xyz_v2_clamp(srgb, one))

\* Lines 216-241, from the reconstructed channels on.
debayer16_to_xyz_v2_colour(red, green, blue, wb_r, wb_g, wb_b, M, one, n) ==
    LET cam_r == red * wb_r
        cam_g == green * wb_g
        cam_b == blue * wb_b
        xyz   == debayer16_to_xyz_v2_matrix(M, cam_r, cam_g, cam_b, one)
    IN  debayer16_to_xyz_v2_stores(<<red, green, blue>>, <<cam_r, cam_g, cam_b>>, n,
                debayer16_to_xyz_v2_srgb(xyz[1], xyz[2], xyz[3], 35), one)

debayer16_to_xyz_v2(in_view, w, h, wb_r, wb_g, wb_b, black, white, M, x, y) ==
    IF debayer16_to_xyz_v2_guard(w, h, x, y) THEN Returned
    ELSE debayer16_to_xyz_v2_colour(
             get_red_v2(in_view, x, y, w, black, white - black),
             get_green_v2(in_view, x, y, w, black, white - black),
             get_blue_v2(in_view, x, y, w, black, white - black),
             wb_r, wb_g, wb_b, M, 4 * Abs(white - black),
             IntAdd(IntMul(y, w), x))

---------------------------------------------------------------------------
(* color_pipeline.cu *)

\* Lines 17-18: the guard.
apply_color_pipeline_guard(w, h, x, y) == x >= w \/ y >= h

\* Lines 31-33: r_norm, g_norm, b_norm of a raw sample; inv_range is held
\* as the integer range whose reciprocal it is.
apply_color_pipeline_norm(raw, black_level_, inv_range) ==
    Quarters(fmaxf((raw - black_level_) * Sgn(inv_range), 0))

\* Lines 42-44: <<xyz_x, xyz_y, xyz_z>>.
apply_color_pipeline_matrix(M, cam_r, cam_g, cam_b, one) ==
    <<fmaf_rn(M[1], cam_r, fmaf_rn(M[2], cam_g, fmaf_rn(M[3], cam_b, M[4] * one))),
      fmaf_rn(M[5], cam_r, fmaf_rn(M[6], cam_g, fmaf_rn(M[7], cam_b, M[8] * one))),
      fmaf_rn(M[9], cam_r, fmaf_rn(M[10], cam_g, fmaf_rn(M[11], cam_b, M[12] * one)))>>

\* The XYZ to sRGB rows without the exposure factor (exposure = 1.0f).
apply_color_pipeline_srgb_unexposed(xyz_x, xyz_y, xyz_z, exposure) ==
    <<WScale(fmaf_rn_w(32404542, xyz_x,
                 fmaf_rn_w(-15371385, xyz_y, WMul(-4985314, xyz_z))), 10),
      WScale(fmaf_rn_w(-9692660, xyz_x,
                 fmaf_rn_w(18760108, xyz_y, WMul(415560, xyz_z))), 10),
      WScale(fmaf_rn_w(556434, xyz_x,
                 fmaf_rn_w(-2040259, xyz_y, WMul(10572252, xyz_z))), 10)>>

\* Lines 47-51: <<srgb_r, srgb_g, srgb_b>>, exposure = 3.5f.
apply_color_pipeline_srgb(xyz_x, xyz_y, xyz_z, exposure) ==
    <<WScale(fmaf_rn_w(32404542, xyz_x,
                 fmaf_rn_w(-15371385, xyz_y, WMul(-4985314, xyz_z))), exposure),
      WScale(fmaf_rn_w(-9692660, xyz_x,
                 fmaf_rn_w(18760108, xyz_y, WMul(415560, xyz_z))), exposure),
      WScale(fmaf_rn_w(556434, xyz_x,
                 fmaf_rn_w(-2040259, xyz_y, WMul(10572252, xyz_z))), exposure)>>

\* Lines 54-56: the values stored.
apply_color_pipeline_clamp(srgb, one) ==
    <<fminf_w(fmaxf_w(srgb[1], F0), F1(one)),
      fminf_w(fmaxf_w(srgb[2], F0), F1(one)),
      fminf_w(fmaxf_w(srgb[3], F0), F1(one))>>

\* The unit's results with its three stores.
apply_color_pipeline_stores(norm, cam, n, srgb, one) ==
    Results(norm, cam, n, srgb, apply_color_pipeline_clamp(srgb, one))

\* Lines 36-56, from the normalised samples on.
apply_color_pipeline_colour(r_norm, g_norm, b_norm, wb_r, wb_g, wb_b, M, one, n) ==
    LET cam_r == r_norm * wb_r
        cam_g == g_norm * wb_g
        cam_b == b_norm * wb_b
        xyz   == apply_color_pipeline_matrix(M, cam_r, cam_g, cam_b, one)
    IN  apply_color_pipeline_stores(<<r_norm, g_norm, b_norm>>, <<cam_r, cam_g, cam_b>>, n,
                apply_color_pipeline_srgb(xyz[1], xyz[2], xyz[3], 35), one)

\* The kernel body for thread coordinate (x, y), up to its stores.
\* rgb_view holds the three samples rgb_in[idx], rgb_in[idx + 1],
\* rgb_in[idx + 2] that the unit loads.
apply_color_pipeline(rgb_view, w, h, wb_r, wb_g, wb_b, black, white, M, x, y) ==
    IF apply_color_pipeline_guard(w, h, x, y) THEN Returned
    ELSE apply_color_pipeline_colour(
             apply_color_pipeline_norm(rgb_view[1], black, white - black),
             apply_color_pipeline_norm(rgb_view[2], black, white - black),
             apply_color_pipeline_norm(rgb_view[3], black, white - black),
             wb_r, wb_g, wb_b, M, 4 * Abs(white - black),
             IntAdd(IntMul(y, w), x))

---------------------------------------------------------------------------
(* Launches *)

Kernels == {"debayer16_to_xyz", "debayer16_to_xyz_v2", "apply_color_pipeline"}

Debayers == {"debayer16_to_xyz", "debayer16_to_xyz_v2"}

\* blockDim of the launch; the grid is the image rounded up to whole blocks.
BlockDimX == 2

BlockDimY == 1

GridDim(n, block) == ((n + block - 1) \div block) * block

\* Images up to this many pixels are followed whole.
MaxPixels == 24

\* An image of 1.6 * 10^9 pixels, whose last output index exceeds INT_MAX.
BigDim == 40000

\* The first pixel n with 3 * n > INT_MAX, and the distance between two
\* pixels whose indices 3 * n are 2^32 + 2 apart.
FirstOvf == INT_MAX \div 3 + 1

Wrap3 == (INT_MAX \div 3) * 2 + 2

Coord(n, w) == <<n % w, n \div w>>

\* The thread coordinates followed.  A small image: the whole grid.  A big
\* one: a window of the output (the pixels w + 1 and FirstOvf), with
\* every unit whose stores can land in the window: the unit of a pixel p
\* itself and, where indices wrap, the units p + Wrap3 - 1 and p + Wrap3,
\* whose indices 3*n - 2^32 are 3*p - 1 and 3*p + 2; and one coordinate
\* beyond the image.
Followed(w, h) ==
    IF w * h <= MaxPixels
        THEN (0 .. GridDim(w, BlockDimX) - 1) \X (0 .. GridDim(h, BlockDimY) - 1)
        ELSE LET window == {w + 1, FirstOvf}
                 cone   == UNION {{p + d : d \in {e \in {0, Wrap3 - 1, Wrap3} :
                                                     p < w * h - e}} : p \in window}
             IN  {Coord(n, w) : n \in cone} \cup {<<w, 0>>}

\* The pixels of the image among the coordinates followed.
FollowedPixels(w, h) ==
    {c[2] * w + c[1] : c \in {d \in Followed(w, h) : d[1] < w /\ d[2] < h}}

Neighbourhood(p, w, h) ==
    {((p \div w) + dy) * w + ((p % w) + dx) : dx \in -1 .. 1, dy \in -1 .. 1}
        \cap (0 .. w * h - 1)

\* uint16 samples occurring in the inputs.
MaxSample == 20

MaxSeed == 1

SampleAt(seed, i) ==
    (((i % 101) * 7 + ((i \div 101) % 13) * 3 + seed * 5) * 11) % (MaxSample + 1)

\* RGGB: the colour of the mosaic site (x, y).
SiteColour(x, y) ==
    IF x % 2 = 0 /\ y % 2 = 0 THEN "r"
    ELSE IF x % 2 = 1 /\ y % 2 = 1 THEN "b"
    ELSE "g"

\* Bilinear reconstruction on RGGB: the sites averaged for channel c at
\* (x, y).
BilinearTaps(c, x, y) ==
    LET horizontal == {<<x - 1, y>>, <<x + 1, y>>}
        vertical   == {<<x, y - 1>>, <<x, y + 1>>}
        diagonal   == {<<x - 1, y - 1>>, <<x + 1, y - 1>>,
                       <<x - 1, y + 1>>, <<x + 1, y + 1>>}
    IN  IF SiteColour(x, y) = c THEN {<<x, y>>}
        ELSE IF c = "g" THEN horizontal \cup vertical
        ELSE IF SiteColour(x, y) # "g" THEN diagonal
        ELSE IF (c = "r") = (y % 2 = 0) THEN horizontal
        ELSE vertical

RECURSIVE SetSum(_, _)
SetSum(f, S) ==
    IF S = {} THEN 0
    ELSE LET e == CHOOSE e \in S : TRUE IN f[e] + SetSum(f, S \ {e})

Channel == <<"r", "g", "b">>

\* The debayered input of apply_color_pipeline as an upstream bilinear
\* demosaic of the mosaic leaves it: the truncated average of the raw
\* samples at interior pixels, the sample itself on the border.
Upstream(mosaic, w, h, pixels) ==
    [a \in pixels \X (0 .. 2) |->
        LET x == a[1] % w
            y == a[1] \div w
            taps == {t[2] * w + t[1] : t \in BilinearTaps(Channel[a[2] + 1], x, y)}
        IN  IF x < 1 \/ x >= w - 1 \/ y < 1 \/ y >= h - 1
                \/ ~(taps \subseteq DOMAIN mosaic)
                THEN SampleAt(a[2], a[1])
                ELSE SetSum(mosaic, taps) \div Cardinality(taps)]

Poison == <<-1, 0>>

Start == "start"

Done == "done"

StoreNo == [store0 |-> 0, store1 |-> 1, store2 |-> 2]

AfterStore == [store0 |-> "store1", store1 |-> "store2", store2 |-> Done]

NoRegs == [ret |-> TRUE, norm |-> <<0, 0, 0>>, cam |-> <<0, 0, 0>>, n |-> 0,
           lin |-> <<F0, F0, F0>>, srgb |-> <<F0, F0, F0>>, branch |-> <<"", "", "">>, norms |-> {}]

\* The state at a launch of the kernels ks on a w x h image at the
\* coordinates xy, with the given levels, gains, matrix and input.
Launch(ks, w, h, xy, levels, gains, M, seed, upstream) ==
    LET pixels == FollowedPixels(w, h)
        mosaic == [i \in UNION {Neighbourhood(p, w, h) : p \in pixels}
                       |-> SampleAt(seed, i)]
    IN  /\ width = w
        /\ height = h
        /\ black_level = levels[1]
        /\ white_level = levels[2]
        /\ wb = gains
        /\ cam_to_xyz = M
        /\ in = mosaic
        /\ rgb_in = IF upstream THEN Upstream(mosaic, w, h, pixels)
                    ELSE [a \in pixels \X (0 .. 2) |-> SampleAt(seed + a[2], a[1])]
        /\ ovf \in {"wrap", "exact"}
        /\ launched = ks \X xy
        /\ pc = [u \in ks \X xy |-> Start]
        /\ regs = [u \in ks \X xy |-> NoRegs]
        /\ out = [k \in Kernels |-> [a \in pixels \X (0 .. 2) |-> Poison]]
        /\ reads = {}
        /\ writes = {}

---------------------------------------------------------------------------
(* Work units *)

\* The value a load at address a of buffer buf yields: the element, or,
\* outside the cells followed, whatever the memory there holds.
Load(buf, a, junk) == IF a \in DOMAIN buf THEN buf[a] ELSE junk

\* The 3x3 window of (x, y) as the unit's loads see the mosaic.
InView(x, y, junk) ==
    [i \in {PIX_index(x + dx, y + dy, width) : dx \in -1 .. 1, dy \in -1 .. 1}
        |-> Load(in, i, junk)]

RgbView(x, y, junk) ==
    LET n == IntAdd(IntMul(y, width), x)
    IN  [k \in 1 .. 3 |-> Load(rgb_in, Idx3(n, k - 1), junk)]

\* Whether unit u returns at its kernel's guard.
Guard(u) ==
    CASE u[1] = "debayer16_to_xyz" ->
            debayer16_to_xyz_guard(width, height, u[2][1], u[2][2])
      [] u[1] = "debayer16_to_xyz_v2" ->
            debayer16_to_xyz_v2_guard(width, height, u[2][1], u[2][2])
      [] OTHER ->
            apply_color_pipeline_guard(width, height, u[2][1], u[2][2])

\* The kernel of unit u run up to its stores.
Locals(u, junk) ==
    LET x == u[2][1]
        y == u[2][2]
    IN  CASE u[1] = "debayer16_to_xyz" ->
                debayer16_to_xyz(InView(x, y, junk), width, height,
                    wb[1], wb[2], wb[3], black_level, white_level,
                    cam_to_xyz, x, y)
          [] u[1] = "debayer16_to_xyz_v2" ->
                debayer16_to_xyz_v2(InView(x, y, junk), width, height,
                    wb[1], wb[2], wb[3], black_level, white_level,
                    cam_to_xyz, x, y)
          [] OTHER ->
                apply_color_pipeline(RgbView(x, y, junk), width, height,
                    wb[1], wb[2], wb[3], black_level, white_level,
                    cam_to_xyz, x, y)

\* The branches unit u takes for red, green and blue.
Taps(u) ==
    LET x == u[2][1]
        y == u[2][2]
    IN  IF u[1] = "debayer16_to_xyz"
            THEN <<get_red_taps(x, y), get_green_taps(x, y), get_blue_taps(x, y)>>
            ELSE <<get_red_v2_taps(x, y), get_green_v2_taps(x, y),
                   get_blue_v2_taps(x, y)>>

Range(s) == {s[i] : i \in DOMAIN s}

\* The loads of unit u: channel, site and address of each.
LoadsOf(u) ==
    LET x == u[2][1]
        y == u[2][2]
    IN  IF u[1] \in Debayers
            THEN {[unit |-> u, ch |-> Channel[ct[1]], x |-> ct[2][1], y |-> ct[2][2],
                   addr |-> <<PIX_index(ct[2][1], ct[2][2], width), 0>>] :
                     ct \in UNION {{c} \X Range(Taps(u)[c].at) : c \in 1 .. 3}}
            ELSE {[unit |-> u, ch |-> Channel[c], x |-> x, y |-> y,
                   addr |-> Idx3(IntAdd(IntMul(y, width), x), c - 1)] :
                     c \in 1 .. 3}

\* The value load l yields.
Loaded(l, junk) ==
    IF l.unit[1] \in Debayers THEN Load(in, l.addr[1], junk)
    ELSE Load(rgb_in, l.addr, junk)

\* The normalisations unit u performs: <<sample, result in quarter units>>.
NormsOf(u, loads, junk) ==
    LET range == white_level - black_level
    IN  CASE u[1] = "debayer16_to_xyz" ->
                {<<Loaded(l, junk),
                   Quarters(normalize_pixel(Loaded(l, junk), black_level, range))>> :
                     l \in loads}
          [] u[1] = "debayer16_to_xyz_v2" ->
                {<<Loaded(l, junk),
                   Quarters(normalize_v2(Loaded(l, junk), black_level, range))>> :
                     l \in loads}
          [] OTHER ->
                {<<Loaded(l, junk),
                   apply_color_pipeline_norm(Loaded(l, junk), black_level, range)>> :
                     l \in loads}

\* What the memory outside the cells followed may hold.
Junk(loads) ==
    IF \A l \in loads : IF l.unit[1] \in Debayers THEN l.addr[1] \in DOMAIN in
                        ELSE l.addr \in DOMAIN rgb_in
        THEN {0}
        ELSE {0, MaxSample}

Computed(u, l, loads, junk) ==
    [ret |-> l.ret, norm |-> l.norm, cam |-> l.cam, n |-> l.n, lin |-> l.lin,
     srgb |-> l.srgb,
     branch |-> IF u[1] \in Debayers THEN [c \in 1 .. 3 |-> Taps(u)[c].branch]
                ELSE <<"", "", "">>,
     norms |-> NormsOf(u, loads, junk)]

\* The unit fails the bounds guard and returns.
Return(u) ==
    /\ pc[u] = Start
    /\ Guard(u)
    /\ pc' = [pc EXCEPT ![u] = Done]
    /\ UNCHANGED <<width, height, black_level, white_level, wb, cam_to_xyz,
                   in, rgb_in, ovf, launched, regs, out, reads, writes>>

\* The unit passes the guard, loads its samples and computes its results.
Compute(u) ==
    /\ pc[u] = Start
    /\ ~Guard(u)
    /\ \E junk \in Junk(LoadsOf(u)) :
         regs' = [regs EXCEPT ![u] = Computed(u, Locals(u, junk), LoadsOf(u), junk)]
    /\ reads' = reads \cup LoadsOf(u)
    /\ pc' = [pc EXCEPT ![u] = "store0"]
    /\ UNCHANGED <<width, height, black_level, white_level, wb, cam_to_xyz,
                   in, rgb_in, ovf, launched, out, writes>>

\* One of out[idx] = ..., out[idx + 1] = ..., out[idx + 2] = ...
Store(u) ==
    /\ pc[u] \in DOMAIN StoreNo
    /\ LET k == StoreNo[pc[u]]
           a == Idx3(regs[u].n, k)
       IN  /\ out' = IF a \in DOMAIN out[u[1]]
                        THEN [out EXCEPT ![u[1]][a] = regs[u].srgb[k + 1]]
                        ELSE out
           /\ writes' = writes \cup {[unit |-> u, k |-> k, addr |-> a]}
    /\ pc' = [pc EXCEPT ![u] = AfterStore[pc[u]]]
    /\ UNCHANGED <<width, height, black_level, white_level, wb, cam_to_xyz,
                   in, rgb_in, ovf, launched, regs, reads>>

Returns == \E u \in launched : Return(u)

Computes == \E u \in launched : Compute(u)

Stores == \E u \in launched : Store(u)

Next == Returns \/ Computes \/ Stores

---------------------------------------------------------------------------
(* Specifications *)

LevelSet == {<<2, 10>>, <<0, 16>>, <<12, 4>>}

GainSet == {<<1, 1, 1>>, <<2, 1, 3>>}

MatrixSet == {<<1, 0, 0, 0,   0, 1, 0, 0,   0, 0, 1, 0>>,
              <<2, -1, 0, 1,  -1, 1, 1, 0,  0, 1, -2, -1>>}

\* One kernel launched on an image, its units interleaving.
PassLaunches ==
    {<<"debayer16_to_xyz", 3, 3>>,
     <<"apply_color_pipeline", 2, 2>>, <<"apply_color_pipeline", 3, 1>>,
     <<"debayer16_to_xyz", BigDim, BigDim>>,
     <<"apply_color_pipeline", BigDim, BigDim>>}

Init ==
    \E l \in PassLaunches, seed \in 0 .. MaxSeed :
        Launch({l[1]}, l[2], l[3], Followed(l[2], l[3]),
               <<2, 10>>, <<2, 1, 3>>,
               <<1, 0, 0, 0,   0, 1, 0, 0,   0, 0, 1, 0>>, seed, FALSE)

Spec == Init /\ [][Next]_vars

\* The three kernels at one thread coordinate, over the inputs.
UnitImages == {<<5, 4>>, <<BigDim, BigDim>>}

InitUnit ==
    \E i \in UnitImages, levels \in LevelSet, gains \in GainSet,
       M \in MatrixSet, seed \in 0 .. MaxSeed, upstream \in BOOLEAN :
        \E xy \in Followed(i[1], i[2]) :
            Launch(Kernels, i[1], i[2], {xy}, levels, gains, M, seed, upstream)

SpecUnit == InitUnit /\ [][Next]_vars

---------------------------------------------------------------------------
(* Properties *)

AllDone == \A u \in launched : pc[u] = Done

\* The kernels of the launch.
Running == {u[1] : u \in launched}

InImage(p) == 0 <= p /\ p < width * height

IsBorder(p) ==
    \/ p % width = 0 \/ p % width = width - 1
    \/ p \div width = 0 \/ p \div width = height - 1

IsInterior(x, y) == 1 <= x /\ x < width - 1 /\ 1 <= y /\ y < height - 1

\* The pixel y * width + x of a unit.
PixelOf(u) == u[2][2] * width + u[2][1]

ReadsOf(u) == {r \in reads : r.unit = u}

WritesOf(u) == {w \in writes : w.unit = u}

One == 4 * Abs(white_level - black_level)

\* v at least 0.0 and at most 1.0.
InUnitRange(v) == ~WLess(v, F0) /\ ~WLess(F1(One), v)

\* C1: border exclusion.  For every width and height, debayer16_to_xyz
\* stores to no component of a pixel with x = 0, x = width - 1, y = 0 or
\* y = height - 1, those cells keep the value the caller gave them, and
\* when the pass has completed the pixels written are exactly the interior
\* ones.
C1_BorderExclusion ==
    \A k \in Running \cap Debayers :
        /\ \A w \in writes :
               ~(InImage(w.addr[1]) /\ IsBorder(w.addr[1]))
        /\ \A a \in DOMAIN out[k] :
               IsBorder(a[1]) => out[k][a] = Poison
        /\ AllDone =>
               \A a \in DOMAIN out[k] :
                   (out[k][a] # Poison) <=> ~IsBorder(a[1])

\* C1 where the index arithmetic does not overflow.
C1_WithoutOverflow == ovf = "exact" => C1_BorderExclusion

\* C2: full coverage.  When a pass of apply_color_pipeline has completed,
\* all three output components of every pixel, edges included, have been
\* written.
C2_FullCoverage ==
    ("apply_color_pipeline" \in Running /\ AllDone) =>
        \A a \in DOMAIN out["apply_color_pipeline"] :
            /\ out["apply_color_pipeline"][a] # Poison
            /\ \E w \in writes : w.addr = a

\* C2 where the index arithmetic does not overflow.
C2_WithoutOverflow == ovf = "exact" => C2_FullCoverage

\* C3: exclusive single write.  During one pass each output location is
\* stored to by at most one unit and at most once, the unit of (x, y)
\* stores only to the indices (y * width + x) * 3 .. + 2, and no store
\* lands on a location a unit reads: the kernels store through out only,
\* so every store stays inside the output buffer, which no unit reads and
\* which is neither the input buffer nor a parameter.
C3_ExclusiveWrite ==
    /\ \A w1 \in writes : \A w2 \in writes :
           w1.addr = w2.addr => w1 = w2
    /\ \A w \in writes : w.addr = <<PixelOf(w.unit), w.k>>
    /\ \A w \in writes : InImage(w.addr[1])

\* C3 where the index arithmetic does not overflow.
C3_WithoutOverflow == ovf = "exact" => C3_ExclusiveWrite

\* C4: order independence.  Every interleaving of the units ends in the
\* same output buffer: a unit's results depend on the inputs only, and when
\* the pass has completed every cell holds the value of each store made to
\* it, whichever store came last.
C4_OrderIndependence ==
    AllDone =>
        \A w \in writes :
            w.addr \in DOMAIN out[w.unit[1]] =>
                out[w.unit[1]][w.addr] = regs[w.unit].srgb[w.k + 1]

\* C4 where the index arithmetic does not overflow.
C4_WithoutOverflow == ovf = "exact" => C4_OrderIndependence

\* C5: buffer bounds.  For any width, height > 0 a unit outside the
\* processed range performs no load and no store; every other unit loads
\* only from indices inside the input buffer ([0, width * height) of the
\* mosaic, within the 3x3 window of (x, y); [0, 3 * width * height) of the
\* debayered buffer) and stores only to indices in
\* [0, 3 * width * height).
C5_BufferBounds ==
    /\ \A u \in launched :
           Guard(u) => ReadsOf(u) = {} /\ WritesOf(u) = {}
    /\ \A r \in reads :
           /\ InImage(r.addr[1])
           /\ r.unit[1] \in Debayers =>
                  /\ r.x - r.unit[2][1] \in -1 .. 1
                  /\ r.y - r.unit[2][2] \in -1 .. 1
                  /\ r.addr[1] = r.y * width + r.x
    /\ \A w \in writes : InImage(w.addr[1])

\* C5 where the index arithmetic does not overflow.
C5_WithoutOverflow == ovf = "exact" => C5_BufferBounds

\* The branch the RGGB pattern calls for red at (x, y).
ExpectedRed(x, y) ==
    IF x % 2 = 0 /\ y % 2 = 0 THEN "direct"
    ELSE IF x % 2 = 1 /\ y % 2 = 0 THEN "horizontal"
    ELSE IF x % 2 = 0 /\ y % 2 = 1 THEN "vertical"
    ELSE "diagonal"

\* The branch it calls for channel c at (x, y); blue is reconstructed as
\* red is where both parities differ.
ExpectedBranch(c, x, y) ==
    IF c = "g" THEN IF (x + y) % 2 = 1 THEN "direct" ELSE "orthogonal"
    ELSE IF c = "r" THEN ExpectedRed(x, y)
    ELSE ExpectedRed(x + 1, y + 1)

\* The sites a branch averages.
ExpectedSites(branch, x, y) ==
    CASE branch = "direct" -> {<<x, y>>}
      [] branch = "horizontal" -> {<<x - 1, y>>, <<x + 1, y>>}
      [] branch = "vertical" -> {<<x, y - 1>>, <<x, y + 1>>}
      [] branch = "diagonal" -> {<<x - 1, y - 1>>, <<x + 1, y - 1>>,
                                 <<x - 1, y + 1>>, <<x + 1, y + 1>>}
      [] OTHER -> {<<x - 1, y>>, <<x + 1, y>>, <<x, y - 1>>, <<x, y + 1>>}

SitesRead(u, c) == {<<r.x, r.y>> : r \in {q \in ReadsOf(u) : q.ch = c}}

\* C6: RGGB parity coverage.  At every interior pixel and for each
\* channel, debayer16_to_xyz takes the one branch that (x mod 2, y mod 2)
\* calls for (red: direct at even/even, left/right at odd/even, up/down at
\* even/odd, diagonal at odd/odd; green: direct when x + y is odd, else the
\* four orthogonal neighbours; blue: as red with the parities swapped),
\* reads exactly that branch's sites, and every sample read for channel C
\* lies on a site of colour C.
C6_ParityCoverage ==
    \A u \in launched :
        (u[1] = "debayer16_to_xyz" /\ pc[u] # Start) =>
            LET x == u[2][1]
                y == u[2][2]
            IN  /\ IsInterior(x, y) <=> ~regs[u].ret
                /\ ~regs[u].ret =>
                       \A c \in 1 .. 3 :
                           /\ regs[u].branch[c] = ExpectedBranch(Channel[c], x, y)
                           /\ SitesRead(u, Channel[c])
                                  = ExpectedSites(regs[u].branch[c], x, y)
                           /\ \A s \in SitesRead(u, Channel[c]) :
                                  SiteColour(s[1], s[2]) = Channel[c]

\* A unit at an odd/odd pixel that has taken the diagonal branch for red,
\* the orthogonal one for green and the direct one for blue, nine loads.
C6_Witness ==
    \E u \in launched :
        /\ u[1] = "debayer16_to_xyz" /\ pc[u] = Done
        /\ u[2][1] % 2 = 1 /\ u[2][2] % 2 = 1
        /\ regs[u].branch = <<"diagonal", "orthogonal", "direct">>
        /\ Cardinality(ReadsOf(u)) = 9

\* What a clamp to [0.0, 1.0] makes of v.
Clamped(v) == IF WLess(v, F0) THEN F0 ELSE IF WLess(F1(One), v) THEN F1(One) ELSE v

\* C7: output range.  Every component either pipeline stores lies in
\* [0.0, 1.0], for all samples, gains and matrices: a value below 0 is
\* stored as 0, a value above 1 as 1, any other as it is.
C7_OutputRange ==
    /\ \A w \in writes :
           /\ InUnitRange(regs[w.unit].srgb[w.k + 1])
           /\ regs[w.unit].srgb[w.k + 1] = Clamped(regs[w.unit].lin[w.k + 1])
    /\ \A k \in Kernels : \A a \in DOMAIN out[k] :
           out[k][a] # Poison => InUnitRange(out[k][a])

\* apply_color_pipeline has stored a value that was below 0 and
\* debayer16_to_xyz one that was above 1 and one in between.
C7_Witness ==
    /\ \E w \in writes :
           /\ w.unit[1] = "apply_color_pipeline"
           /\ WLess(regs[w.unit].lin[w.k + 1], F0)
           /\ w.addr \in DOMAIN out[w.unit[1]] /\ out[w.unit[1]][w.addr] = F0
    /\ \E w \in writes :
           /\ w.unit[1] = "debayer16_to_xyz"
           /\ WLess(F1(One), regs[w.unit].lin[w.k + 1])
           /\ w.addr \in DOMAIN out[w.unit[1]] /\ out[w.unit[1]][w.addr] = F1(One)
    /\ \E w \in writes :
           /\ w.unit[1] = "debayer16_to_xyz"
           /\ WLess(F0, regs[w.unit].lin[w.k + 1])
           /\ WLess(regs[w.unit].lin[w.k + 1], F1(One))

\* The normalisations performed by normalize_pixel and by
\* apply_color_pipeline: <<sample, result>>.
Normalised ==
    UNION {regs[u].norms :
               u \in {v \in launched :
                          v[1] \in {"debayer16_to_xyz", "apply_color_pipeline"}}}

\* C8: normalisation.  For black_level < white_level and samples a <= b,
\* normalize(a) <= normalize(b); normalize(black_level) = 0; a sample below
\* black_level normalises to 0, never below; a sample above white_level
\* normalises to more than 1.
C8_Normalization ==
    black_level < white_level =>
        \A p \in Normalised :
            /\ \A q \in Normalised : p[1] <= q[1] => p[2] <= q[2]
            /\ p[1] <= black_level => p[2] = 0
            /\ p[2] >= 0
            /\ p[1] > white_level => p[2] > One

\* One unit of each kernel has normalised a sample below black_level, and
\* debayer16_to_xyz also the black level itself, a sample between the
\* levels and one above white_level.
C8_Witness ==
    /\ black_level < white_level
    /\ \E u \in launched :
           /\ u[1] = "debayer16_to_xyz"
           /\ \E p \in regs[u].norms : p[1] < black_level
           /\ \E p \in regs[u].norms : p[1] = black_level
           /\ \E p \in regs[u].norms : black_level < p[1] /\ p[1] < white_level
           /\ \E p \in regs[u].norms : p[1] > white_level
    /\ \E u \in launched :
           /\ u[1] = "apply_color_pipeline"
           /\ \E p \in regs[u].norms : p[1] < black_level
           /\ \E p \in regs[u].norms : p[1] > white_level

\* C9: composition equivalence.  Where the debayered buffer holds at an
\* interior pixel what the demosaic makes of the mosaic there, so that the
\* two kernels arrive at the same white-balanced camera RGB,
\* apply_color_pipeline equals debayer16_to_xyz: the same values before
\* and after the clamp, stored to the same indices.
C9_CompositionEquivalence ==
    \A c \in launched : \A d \in launched :
        ( /\ c[1] = "apply_color_pipeline" /\ d[1] = "debayer16_to_xyz"
          /\ c[2] = d[2] /\ IsInterior(c[2][1], c[2][2])
          /\ pc[c] # Start /\ pc[d] # Start
          /\ regs[c].cam = regs[d].cam ) =>
            /\ regs[c].lin = regs[d].lin
            /\ regs[c].srgb = regs[d].srgb
            /\ regs[c].n = regs[d].n
            /\ (pc[c] = Done /\ pc[d] = Done) =>
                   /\ {<<w.k, w.addr>> : w \in WritesOf(c)}
                          = {<<w.k, w.addr>> : w \in WritesOf(d)}
                   /\ out[c[1]] = out[d[1]]

\* Both kernels have completed at an interior pixel where debayer16_to_xyz
\* interpolates red and blue, on a buffer that gives apply_color_pipeline
\* the same camera RGB, not all zero, and an output component strictly
\* between 0 and 1.
C9_Witness ==
    \E c \in launched : \E d \in launched :
        /\ c[1] = "apply_color_pipeline" /\ d[1] = "debayer16_to_xyz"
        /\ c[2] = d[2] /\ IsInterior(c[2][1], c[2][2])
        /\ pc[c] = Done /\ pc[d] = Done
        /\ regs[d].branch[1] # "direct" /\ regs[d].branch[3] # "direct"
        /\ regs[c].cam = regs[d].cam
        /\ \A i \in 1 .. 3 : regs[d].cam[i] > 0
        /\ \E i \in 1 .. 3 :
               WLess(F0, regs[c].srgb[i]) /\ WLess(regs[c].srgb[i], F1(One))

\* What a unit loads: channel, site and index of each load.
LoadsLogged(u) == {<<r.ch, r.x, r.y, r.addr>> : r \in ReadsOf(u)}

\* C10: variant equivalence.  For every width and height, every unit
\* coordinate and white_level > black_level, the two definitions of
\* debayer16_to_xyz skip the same pixels, take the same branch and read the
\* same samples per channel, and in exact arithmetic compute and store the
\* same values to the same indices.
C10_VariantEquivalence ==
    black_level < white_level =>
        \A a \in launched : \A b \in launched :
            ( /\ a[1] = "debayer16_to_xyz" /\ b[1] = "debayer16_to_xyz_v2"
              /\ a[2] = b[2] ) =>
                /\ Guard(a) <=> Guard(b)
                /\ (pc[a] # Start /\ pc[b] # Start) =>
                       /\ regs[a] = regs[b]
                       /\ LoadsLogged(a) = LoadsLogged(b)
                /\ (pc[a] = Done /\ pc[b] = Done) =>
                       /\ {<<w.k, w.addr>> : w \in WritesOf(a)}
                              = {<<w.k, w.addr>> : w \in WritesOf(b)}
                       /\ out[a[1]] = out[b[1]]

\* Both definitions have completed at an interior pixel with samples below
\* black_level among those read and an output component between 0 and 1.
C10_Witness ==
    /\ black_level < white_level
    /\ \E a \in launched : \E b \in launched :
           /\ a[1] = "debayer16_to_xyz" /\ b[1] = "debayer16_to_xyz_v2"
           /\ a[2] = b[2]
           /\ pc[a] = Done /\ pc[b] = Done
           /\ ~regs[a].ret /\ ~regs[b].ret
           /\ \E p \in regs[b].norms : p[1] < black_level
           /\ \E i \in 1 .. 3 :
                  WLess(F0, regs[b].srgb[i]) /\ WLess(regs[b].srgb[i], F1(One))

=============================================================================
